---- MODULE Spec2Model ----
(***************************************************************************)
(* Model of sdk/go/common/encoding/ast.go: FileAST, the YAML configuration *)
(* editor (SetConfig, RemoveConfig, HasKey, IsEmpty) and its node          *)
(* primitives.                                                             *)
(*                                                                         *)
(* A node is a record.  kind is the Go type of the node:                   *)
(*   "map"  *ast.MappingNode       col, flow, vals (sequence of "mv")      *)
(*   "seq"  *ast.SequenceNode      col, vals (sequence of nodes)           *)
(*   "mv"   *ast.MappingValueNode  key, col, value                         *)
(*   "string" "integer" "float" "bool"  scalar nodes: val, col, dq         *)
(*   "nil"  the nil ast.Node                                               *)
(* col is GetToken().Position.Column.  The tree has no shared nodes, so a  *)
(* Go pointer to a node is modelled by its address: the sequence of child  *)
(* positions from the document body.                                       *)
(***************************************************************************)
EXTENDS Integers, Sequences, FiniteSets, TLC

VARIABLES ast, prev, call, err, found, n

vars == <<ast, prev, call, err, found, n>>

\* ast.go:33
indentSpaces == 2

\* Number of calls made on one FileAST.
MaxOps == 2

-----------------------------------------------------------------------------
(* Nodes *)

Nil == [kind |-> "nil"]

Scalar(kind, val, col, dq) == [kind |-> kind, val |-> val, col |-> col, dq |-> dq]

MV(key, col, value) == [kind |-> "mv", key |-> key, col |-> col, value |-> value]

Mapping(col, flow, vals) == [kind |-> "map", col |-> col, flow |-> flow, vals |-> vals]

Sequence(col, vals) == [kind |-> "seq", col |-> col, vals |-> vals]

\* Path segments: a string key or an integer index (interface{} in the source).
StrSeg(s) == [isInt |-> FALSE, s |-> s, i |-> 0]

IntSeg(i) == [isInt |-> TRUE, s |-> "", i |-> i]

\* Position of the first entry of vals keyed k, 0 when there is none
\* (the `for i, v := range Values { if v.Key.String() == k` loops).
IndexOfKey(vals, k) ==
  LET hits == {i \in 1..Len(vals) : vals[i].key = k}
  IN IF hits = {} THEN 0 ELSE CHOOSE i \in hits : \A j \in hits : i <= j

RemoveAt(s, i) == SubSeq(s, 1, i - 1) \o SubSeq(s, i + 1, Len(s))

\* The child of node t at position i.
Child(t, i) ==
  IF t.kind = "map" THEN t.vals[i].value
  ELSE IF t.kind = "seq" THEN t.vals[i]
  ELSE t.value

RECURSIVE NodeAt(_, _)
NodeAt(t, addr) ==
  IF addr = <<>> THEN t ELSE NodeAt(Child(t, Head(addr)), Tail(addr))

RECURSIVE ReplaceAt(_, _, _)
ReplaceAt(t, addr, new) ==
  IF addr = <<>> THEN new
  ELSE LET i == Head(addr)
           sub == ReplaceAt(Child(t, i), Tail(addr), new)
       IN IF t.kind = "map" THEN [t EXCEPT !.vals[i].value = sub]
          ELSE IF t.kind = "seq" THEN [t EXCEPT !.vals[i] = sub]
          ELSE [t EXCEPT !.value = sub]

-----------------------------------------------------------------------------
(* config.Key, config.Value *)

\* strings whose first byte is '0' (ast.go:372)
LeadingZero(s) == s \in {"07"}

\* config.AdjustObjectValue: the typed value written in path mode.
AdjustObjectValue(raw, secure, path) ==
  IF ~path \/ secure THEN [t |-> "value", s |-> raw]
  ELSE IF raw \in {"true", "false"} THEN [t |-> "bool", s |-> raw]
  ELSE IF LeadingZero(raw) THEN [t |-> "string", s |-> raw]
  ELSE IF raw \in {"7"} THEN [t |-> "int", s |-> raw]
  ELSE [t |-> "string", s |-> raw]

\* value.RawValue(), a Go string
RawValue(raw) == [t |-> "string", s |-> raw]

\* config.ParseKeyPath: the segments of a key's name; the first one is configKey.
ParseKeyPath(k) ==
  CASE k = "a" -> <<StrSeg("a")>>
    [] k = "secure" -> <<StrSeg("secure")>>
    [] k = "a.b" -> <<StrSeg("a"), StrSeg("b")>>
    [] k = "a.secure" -> <<StrSeg("a"), StrSeg("secure")>>
    [] k = "a[0]" -> <<StrSeg("a"), IntSeg(0)>>
    [] k = "a[1]" -> <<StrSeg("a"), IntSeg(1)>>
    [] k = "a[2]" -> <<StrSeg("a"), IntSeg(2)>>
    [] k = "a.b.c" -> <<StrSeg("a"), StrSeg("b"), StrSeg("c")>>
    [] k = "a[0].b" -> <<StrSeg("a"), IntSeg(0), StrSeg("b")>>
    [] k = "a.b[0]" -> <<StrSeg("a"), StrSeg("b"), IntSeg(0)>>

Keys == {"a", "secure", "a.b", "a.secure", "a[0]", "a[1]", "a[2]", "a.b.c", "a[0].b", "a.b[0]"}

RootKeys == {"", "r"}

-----------------------------------------------------------------------------
(* Node primitives *)

\* isSecureValue without the test of the key: any Mapping with one entry.
isSecureValue_AnySingle(v) == v.kind = "map" /\ Len(v.vals) = 1

isSecureValue(v) ==
  IF v.kind = "map" /\ Len(v.vals) = 1 THEN v.vals[1].key = "secure" ELSE FALSE

newMappingNode(key, column) == Mapping(column, FALSE, <<>>)

\* newSequenceNode that indents the Sequence one unit deeper than the column given.
newSequenceNode_Indented(column) == Sequence(column + indentSpaces, <<>>)

newSequenceNode(column) == Sequence(column, <<>>)

newMappingValueNode(key, value, column) == MV(key, column, value)

\* upsertNode without the lookup of an existing entry: always appends.
upsertNode_AlwaysAppend(root, key, node) ==
  [root EXCEPT !.vals = Append(root.vals, newMappingValueNode(key, node, root.col))]

upsertNode(root, key, node) ==
  IF Len(root.vals) = 1 /\ root.vals[1].key = "secure"
  THEN [root EXCEPT !.vals[1] = newMappingValueNode(key, node, root.vals[1].col)]
  ELSE LET i == IndexOfKey(root.vals, key)
       IN IF i # 0 THEN [root EXCEPT !.vals[i].value = node]
          ELSE [root EXCEPT !.vals = Append(root.vals, newMappingValueNode(key, node, root.col))]

\* val: the node found (Nil when absent), at: its address below node.
RECURSIVE getConfigFromNode(_, _)
getConfigFromNode(node, key) ==
  IF node.kind = "map" THEN
    IF key.isInt THEN [val |-> Nil, err |-> "panic", at |-> <<>>]
    ELSE LET i == IndexOfKey(node.vals, key.s)
         IN IF i # 0 THEN [val |-> node.vals[i].value, err |-> "ok", at |-> <<i>>]
            ELSE [val |-> Nil, err |-> "ok", at |-> <<>>]
  ELSE IF node.kind = "seq" THEN
    IF ~key.isInt THEN [val |-> Nil, err |-> "panic", at |-> <<>>]
    ELSE IF key.i < 0 \/ key.i > Len(node.vals) THEN [val |-> Nil, err |-> "IndexOutOfRange", at |-> <<>>]
    ELSE IF key.i = Len(node.vals) THEN [val |-> Nil, err |-> "ok", at |-> <<>>]
    ELSE [val |-> node.vals[key.i + 1], err |-> "ok", at |-> <<key.i + 1>>]
  ELSE IF node.kind = "mv" THEN
    LET r == getConfigFromNode(node.value, key)
    IN [r EXCEPT !.at = <<1>> \o r.at]
  ELSE [val |-> Nil, err |-> "panic", at |-> <<>>]

\* newValueNode without the `case int`: v stays nil.
newValueNode_NoInt(value, secure, column) ==
  LET v == CASE value.t = "bool" -> Scalar("bool", value.s, column, FALSE)
             [] value.t = "int" -> Nil
             [] value.t = "string" -> Scalar("string", value.s, column, LeadingZero(value.s))
             [] value.t = "value" -> Scalar("string", value.s, column, FALSE)
  IN IF secure THEN MV("secure", column + indentSpaces, v) ELSE v

newValueNode(value, secure, column) ==
  LET v == CASE value.t = "bool" -> Scalar("bool", value.s, column, FALSE)
             [] value.t = "int" -> Scalar("integer", value.s, column, FALSE)
             [] value.t = "string" -> Scalar("string", value.s, column, LeadingZero(value.s))
             [] value.t = "value" -> Scalar("string", value.s, column, FALSE)
  IN IF secure THEN MV("secure", column + indentSpaces, v) ELSE v

\* setValue with `i >= len(t.Values)` as the range check: no append.
setValue_NoAppend(key, hasParent, container, value) ==
  IF container.kind = "map" THEN
    IF key.isInt THEN [container |-> container, err |-> "panic"]
    ELSE [container |-> upsertNode(container, key.s, value), err |-> "ok"]
  ELSE IF container.kind = "seq" THEN
    IF ~key.isInt THEN [container |-> container, err |-> "panic"]
    ELSE IF key.i < 0 \/ key.i >= Len(container.vals)
      THEN [container |-> container, err |-> "IndexOutOfRange"]
    ELSE [container |-> [container EXCEPT !.vals[key.i + 1] = value], err |-> "ok"]
  ELSE [container |-> container, err |-> "panic"]

\* hasParent: containerParent and containerParentKey are not nil.
setValue(key, hasParent, container, value) ==
  IF container.kind = "map" THEN
    IF key.isInt THEN [container |-> container, err |-> "panic"]
    ELSE [container |-> upsertNode(container, key.s, value), err |-> "ok"]
  ELSE IF container.kind = "seq" THEN
    IF ~key.isInt THEN [container |-> container, err |-> "panic"]
    ELSE IF key.i < 0 \/ key.i > Len(container.vals)
      THEN [container |-> container, err |-> "IndexOutOfRange"]
    ELSE IF key.i = Len(container.vals)
      THEN [container |-> [container EXCEPT !.vals = Append(container.vals, value)],
            err |-> IF hasParent THEN "ok" ELSE "panic"]
    ELSE [container |-> [container EXCEPT !.vals[key.i + 1] = value], err |-> "ok"]
  ELSE [container |-> container, err |-> "panic"]

removeKey(node, key) ==
  IF node.kind = "map" THEN
    IF key.isInt THEN node
    ELSE LET i == IndexOfKey(node.vals, key.s)
         IN IF i # 0 THEN [node EXCEPT !.vals = RemoveAt(node.vals, i)] ELSE node
  ELSE IF node.kind = "seq" THEN
    IF ~key.isInt \/ key.i < 0 \/ key.i >= Len(node.vals) THEN node
    ELSE [node EXCEPT !.vals = RemoveAt(node.vals, key.i + 1)]
  ELSE node

\* walk that hands back the node it was given when the key is not found.
walk_FallbackToRoot(node, key) ==
  LET hits == {i \in 1..Len(node.vals) :
                 node.vals[i].key = key /\ node.vals[i].value.kind = "map"}
  IN IF hits = {} THEN [err |-> "ok", at |-> <<>>]
     ELSE [err |-> "ok", at |-> <<CHOOSE i \in hits : \A j \in hits : i <= j>>]

\* at: address of the Mapping found, below node.
walk(node, key) ==
  LET hits == {i \in 1..Len(node.vals) :
                 node.vals[i].key = key /\ node.vals[i].value.kind = "map"}
  IN IF hits = {} THEN [err |-> "RootKeyNotFound", at |-> <<>>]
     ELSE [err |-> "ok", at |-> <<CHOOSE i \in hits : \A j \in hits : i <= j>>]

-----------------------------------------------------------------------------
(* FileAST *)

\* IsEmpty without the len(f.ast.Docs) test.
IsEmpty_NilOnly(f) == f.isNil

IsEmpty(f) == f.isNil \/ Len(f.Docs) = 0

\* f.ast.Docs[0].Body.  Without a document the dereference panics: the body
\* is then Nil, which no type assertion accepts.
Body(f) == IF f.isNil \/ Len(f.Docs) = 0 THEN Nil ELSE f.Docs[1]

WithBody(f, body) == IF Body(f).kind = "nil" THEN f ELSE [f EXCEPT !.Docs[1] = body]

\* The result is the bool returned, or "panic" when the type assertion on the body fails.
HasKey(f, k) ==
  IF IsEmpty(f) THEN "false"
  ELSE IF Body(f).kind # "map" THEN "panic"
  ELSE IF \E i \in 1..Len(Body(f).vals) : Body(f).vals[i].key = k THEN "true"
  ELSE "false"

\* simpleValue that also takes the MappingValueNode newValueNode builds for a secret.
simpleValue_SecretValueNode(pvalue) ==
  \/ pvalue.kind \in {"string", "integer", "literal", "float"}
  \/ (pvalue.kind = "map" /\ Len(pvalue.vals) = 1 /\ pvalue.vals[1].key = "secure")
  \/ (pvalue.kind = "mv" /\ pvalue.key = "secure")

\* ast.go:139-146
simpleValue(pvalue) ==
  \/ pvalue.kind \in {"string", "integer", "literal", "float"}
  \/ (pvalue.kind = "map" /\ Len(pvalue.vals) = 1 /\ pvalue.vals[1].key = "secure")

\* typeMismatch that only checks the array case.
typeMismatch_ArrayOnly(pkey, pvalue) == pkey.isInt /\ pvalue.kind # "seq"

\* ast.go:148-163: the existing value is not the container pkey needs.
typeMismatch(pkey, pvalue) ==
  IF pkey.isInt THEN pvalue.kind # "seq" ELSE pvalue.kind # "map"

\* ast.go:130-176, the loop over pathSegments[1:].  cur is the address of cursor;
\* the result carries the body as mutated so far.
RECURSIVE SetLoop(_, _, _, _, _)
SetLoop(body, cur, cursorKey, hasParent, rest) ==
  IF rest = <<>>
  THEN [body |-> body, err |-> "ok", cur |-> cur, cursorKey |-> cursorKey, hasParent |-> hasParent]
  ELSE
    LET pkey == Head(rest)
        cursor == NodeAt(body, cur)
        column == cursor.col
        g == getConfigFromNode(cursor, cursorKey)
        pvalue == g.val
        fresh == pvalue.kind = "nil" \/ simpleValue(pvalue)
        newValue == IF pkey.isInt THEN newSequenceNode(column)
                    ELSE newMappingNode(pkey.s, column + indentSpaces)
        sv == setValue(cursorKey, hasParent, cursor, newValue)
        body1 == ReplaceAt(body, cur, sv.container)
        at1 == IF sv.container.kind = "map"
               THEN <<IndexOfKey(sv.container.vals, cursorKey.s)>>
               ELSE <<cursorKey.i + 1>>
        stop(b, e) == [body |-> b, err |-> e, cur |-> cur, cursorKey |-> cursorKey,
                       hasParent |-> hasParent]
    IN IF g.err # "ok" THEN stop(body, g.err)
       ELSE IF fresh THEN
         IF sv.err # "ok" THEN stop(body1, sv.err)
         ELSE SetLoop(body1, cur \o at1, pkey, TRUE, Tail(rest))
       ELSE IF typeMismatch(pkey, pvalue) THEN stop(body, "TypeMismatch")
       ELSE SetLoop(body, cur \o g.at, pkey, TRUE, Tail(rest))

\* ast.go:178-190
SetFinal(w, raw, secure, path) ==
  LET cursor == NodeAt(w.body, w.cur)
      adjustedValue == newValueNode(AdjustObjectValue(raw, secure, path), secure, cursor.col)
      sv == setValue(w.cursorKey, w.hasParent, cursor, adjustedValue)
      body1 == ReplaceAt(w.body, w.cur, sv.container)
  IN IF sv.err # "ok" THEN [body |-> body1, err |-> sv.err]
     ELSE IF isSecureValue(sv.container) THEN [body |-> body1, err |-> "SecureKeyReserved"]
     ELSE [body |-> body1, err |-> "ok"]

\* ast.go:100-109
SetNoPath(body, at, key, raw, secure) ==
  LET node == NodeAt(body, at)
      node1 == IF Len(node.vals) = 0 /\ node.flow
               THEN [node EXCEPT !.flow = FALSE, !.col = node.col + indentSpaces]
               ELSE node
      node2 == upsertNode(node1, key, newValueNode(RawValue(raw), secure, node1.col))
  IN [body |-> ReplaceAt(body, at, node2), err |-> "ok"]

\* ast.go:111-191
SetPath(body, at, key, raw, secure) ==
  LET pathSegments == ParseKeyPath(key)
      configKey == pathSegments[1].s
      node == NodeAt(body, at)
  IN IF Len(pathSegments) = 1
     THEN [body |-> ReplaceAt(body, at,
                      upsertNode(node, configKey, newValueNode(RawValue(raw), secure, node.col))),
           err |-> "ok"]
     ELSE LET w == SetLoop(body, at, StrSeg(configKey), FALSE, Tail(pathSegments))
          IN IF w.err # "ok" THEN [body |-> w.body, err |-> w.err]
             ELSE SetFinal(w, raw, secure, TRUE)

\* ast.go:85-191.  The result is the FileAST after the call and the error returned.
SetConfig(f, rootKey, key, raw, secure, path) ==
  IF IsEmpty(f) THEN [f |-> f, err |-> "EmptyDocument"]
  ELSE IF Body(f).kind # "map" THEN [f |-> f, err |-> "panic"]
  ELSE LET w == IF rootKey # "" THEN walk(Body(f), rootKey) ELSE [err |-> "ok", at |-> <<>>]
       IN IF w.err # "ok" THEN [f |-> f, err |-> w.err]
          ELSE LET r == IF path THEN SetPath(Body(f), w.at, key, raw, secure)
                        ELSE SetNoPath(Body(f), w.at, key, raw, secure)
               IN [f |-> WithBody(f, r.body), err |-> r.err]

\* ast.go:448-484.  parent and v are addresses below source; vnil: v is the nil Node.
RECURSIVE getNodeForPath(_, _, _, _)
getNodeForPath(source, parent, v, p) ==
  IF p = <<>> THEN [ok |-> TRUE, parent |-> parent, v |-> v, vnil |-> FALSE]
  ELSE LET key == Head(p)
           t == NodeAt(source, v)
           g == getConfigFromNode(t, key)
           fail == [ok |-> FALSE, parent |-> <<>>, v |-> <<>>, vnil |-> FALSE]
       IN IF t.kind = "map" THEN
            IF key.isInt THEN fail
            ELSE IF g.val.kind = "nil"
              THEN IF Tail(p) = <<>> THEN [ok |-> TRUE, parent |-> v, v |-> <<>>, vnil |-> TRUE]
                   ELSE fail
            ELSE getNodeForPath(source, v, v \o g.at, Tail(p))
          ELSE IF t.kind = "seq" THEN
            IF ~key.isInt \/ key.i < 0 \/ key.i >= Len(t.vals) THEN fail
            ELSE getNodeForPath(source, v, v \o g.at, Tail(p))
          ELSE fail

\* RemovePath that always takes configKey as the key of the parent entry.
RemovePath_HeadKey(body, at, pathSegments) ==
  LET len == Len(pathSegments)
      configKey == pathSegments[1]
      p == <<configKey>> \o (IF len > 2 THEN SubSeq(pathSegments, 2, len - 1) ELSE <<>>)
      root == NodeAt(body, at)
      r == getNodeForPath(root, <<>>, <<>>, p)
      key == pathSegments[len]
      dest == NodeAt(root, r.v)
      dest1 == removeKey(dest, key)
      root1 == ReplaceAt(root, r.v, dest1)
      pt == NodeAt(root1, r.parent)
      parentKey == configKey
      root2 == ReplaceAt(root1, r.parent, upsertNode(pt, parentKey.s, newMappingNode("-", pt.col)))
  IN IF ~r.ok \/ r.vnil THEN [body |-> body, err |-> "ok"]
     ELSE IF dest1.kind = "map" /\ Len(dest1.vals) = 0 /\ pt.kind = "map"
       THEN IF parentKey.isInt THEN [body |-> ReplaceAt(body, at, root1), err |-> "panic"]
            ELSE [body |-> ReplaceAt(body, at, root2), err |-> "ok"]
     ELSE [body |-> ReplaceAt(body, at, root1), err |-> "ok"]

\* ast.go:232-260
RemovePath(body, at, pathSegments) ==
  LET len == Len(pathSegments)
      configKey == pathSegments[1]
      p == <<configKey>> \o (IF len > 2 THEN SubSeq(pathSegments, 2, len - 1) ELSE <<>>)
      root == NodeAt(body, at)
      r == getNodeForPath(root, <<>>, <<>>, p)
      key == pathSegments[len]
      dest == NodeAt(root, r.v)
      dest1 == removeKey(dest, key)
      root1 == ReplaceAt(root, r.v, dest1)
      pt == NodeAt(root1, r.parent)
      parentKey == IF len = 2 THEN configKey ELSE pathSegments[len - 1]
      root2 == ReplaceAt(root1, r.parent, upsertNode(pt, parentKey.s, newMappingNode("-", pt.col)))
  IN IF ~r.ok \/ r.vnil THEN [body |-> body, err |-> "ok"]
     ELSE IF dest1.kind = "map" /\ Len(dest1.vals) = 0 /\ pt.kind = "map"
       THEN IF parentKey.isInt THEN [body |-> ReplaceAt(body, at, root1), err |-> "panic"]
            ELSE [body |-> ReplaceAt(body, at, root2), err |-> "ok"]
     ELSE [body |-> ReplaceAt(body, at, root1), err |-> "ok"]

\* ast.go:194-261
RemoveConfig(f, rootKey, k, path) ==
  IF IsEmpty(f) THEN [f |-> f, err |-> "ok"]
  ELSE IF Body(f).kind # "map" THEN [f |-> f, err |-> "panic"]
  ELSE LET w == IF rootKey # "" THEN walk(Body(f), rootKey) ELSE [err |-> "ok", at |-> <<>>]
           root == NodeAt(Body(f), w.at)
           pathSegments == ParseKeyPath(k)
           body1 == IF ~path THEN ReplaceAt(Body(f), w.at, removeKey(root, StrSeg(k)))
                    ELSE IF Len(pathSegments) = 1
                      THEN ReplaceAt(Body(f), w.at, removeKey(root, pathSegments[1]))
                    ELSE RemovePath(Body(f), w.at, pathSegments).body
           e == IF path /\ Len(pathSegments) > 1
                THEN RemovePath(Body(f), w.at, pathSegments).err ELSE "ok"
       IN IF w.err # "ok" THEN [f |-> f, err |-> w.err]
          ELSE [f |-> WithBody(f, body1), err |-> e]

-----------------------------------------------------------------------------
(* Documents as the parser delivers them.  Columns are 1-based; a block     *)
(* Mapping and its entries carry the column of its keys.                    *)

Str(v, c) == Scalar("string", v, c, FALSE)

\* a: x
\* r: {}
DocFlat ==
  Mapping(1, FALSE, <<MV("a", 1, Str("x", 4)), MV("r", 1, Mapping(4, TRUE, <<>>))>>)

\* a: {b: {c: 1}}, r: {a: {b: y}} in block notation
DocNested ==
  Mapping(1, FALSE,
    <<MV("a", 1, Mapping(3, FALSE,
         <<MV("b", 3, Mapping(5, FALSE, <<MV("c", 5, Scalar("integer", "1", 8, FALSE))>>))>>)),
      MV("r", 1, Mapping(3, FALSE,
         <<MV("a", 3, Mapping(5, FALSE, <<MV("b", 5, Str("y", 8))>>))>>))>>)

\* a: [{b: z}, x], r: s
DocSeq ==
  Mapping(1, FALSE,
    <<MV("a", 1, Sequence(1, <<Mapping(3, FALSE, <<MV("b", 3, Str("z", 6))>>), Str("x", 3)>>)),
      MV("r", 1, Str("s", 4))>>)

\* a: {secure: s}, r: {secure: t}
DocSecure ==
  Mapping(1, FALSE,
    <<MV("a", 1, Mapping(3, FALSE, <<MV("secure", 3, Str("s", 11))>>)),
      MV("r", 1, Mapping(3, FALSE, <<MV("secure", 3, Str("t", 11))>>))>>)

\* a: {b: true, c: {}}, r: {a: {}}
DocBool ==
  Mapping(1, FALSE,
    <<MV("a", 1, Mapping(3, FALSE,
         <<MV("b", 3, Scalar("bool", "true", 6, FALSE)), MV("c", 3, Mapping(6, TRUE, <<>>))>>)),
      MV("r", 1, Mapping(3, FALSE, <<MV("a", 3, Mapping(6, TRUE, <<>>))>>))>>)

\* {}
DocEmptyMap == Mapping(1, TRUE, <<>>)

\* - x
DocSeqRoot == Sequence(1, <<Str("x", 3)>>)

Bodies == {DocFlat, DocNested, DocSeq, DocSecure, DocBool, DocEmptyMap, DocSeqRoot}

\* NewFileAST: &FileAST{} for nil bytes, a file without documents, or one parsed document.
InitialASTs ==
  {[isNil |-> TRUE, Docs |-> <<>>], [isNil |-> FALSE, Docs |-> <<>>]}
    \cup {[isNil |-> FALSE, Docs |-> <<b>>] : b \in Bodies}

\* config.Value: raw string and secrecy flag.
Values ==
  {[raw |-> "v", secure |-> FALSE], [raw |-> "v", secure |-> TRUE],
   [raw |-> "true", secure |-> FALSE], [raw |-> "7", secure |-> FALSE]}

\* A key and the path flag it is passed with.  Without the flag the whole
\* key is one Mapping key.
Addressings ==
  {[key |-> k, path |-> TRUE] : k \in Keys}
    \cup {[key |-> k, path |-> FALSE] : k \in {"a", "secure", "a.b"}}

\* Arguments of SetConfig.
SetInputs ==
  {[rootKey |-> rk, key |-> a.key, path |-> a.path, raw |-> v.raw, secure |-> v.secure] :
     rk \in RootKeys, a \in Addressings, v \in Values}
    \cup {[rootKey |-> "", key |-> a.key, path |-> a.path, raw |-> "07", secure |-> FALSE] :
            a \in {[key |-> "a", path |-> FALSE], [key |-> "a.b", path |-> TRUE]}}

\* Arguments of RemoveConfig.
RemoveInputs ==
  {[rootKey |-> rk, key |-> a.key, path |-> a.path] : rk \in RootKeys, a \in Addressings}

\* Arguments of HasKey.
HasInputs == {"a", "r"}

NoCall == [op |-> "none", rootKey |-> "", key |-> "", raw |-> "", secure |-> FALSE, path |-> FALSE]

-----------------------------------------------------------------------------
(* The state machine: calls made one after another on one FileAST.  prev is *)
(* the FileAST before the last call, call its arguments, err the error it   *)
(* returned, found the result of HasKey.                                    *)

Init ==
  /\ ast \in InitialASTs
  /\ prev = ast
  /\ call = NoCall
  /\ err = "ok"
  /\ found = "false"
  /\ n = 0

Set ==
  /\ n < MaxOps
  /\ \E in \in SetInputs :
       LET r == SetConfig(ast, in.rootKey, in.key, in.raw, in.secure, in.path)
       IN /\ ast' = r.f
          /\ err' = r.err
          /\ call' = [op |-> "Set", rootKey |-> in.rootKey, key |-> in.key, raw |-> in.raw,
                      secure |-> in.secure, path |-> in.path]
  /\ prev' = ast
  /\ found' = "false"
  /\ n' = n + 1

Remove ==
  /\ n < MaxOps
  /\ \E in \in RemoveInputs :
       LET r == RemoveConfig(ast, in.rootKey, in.key, in.path)
       IN /\ ast' = r.f
          /\ err' = r.err
          /\ call' = [op |-> "Remove", rootKey |-> in.rootKey, key |-> in.key, raw |-> "",
                      secure |-> FALSE, path |-> in.path]
  /\ prev' = ast
  /\ found' = "false"
  /\ n' = n + 1

Has ==
  /\ n < MaxOps
  /\ \E key \in HasInputs :
       /\ found' = HasKey(ast, key)
       /\ call' = [op |-> "HasKey", rootKey |-> "", key |-> key, raw |-> "",
                   secure |-> FALSE, path |-> FALSE]
  /\ err' = IF found' = "panic" THEN "panic" ELSE "ok"
  /\ prev' = ast
  /\ ast' = ast
  /\ n' = n + 1

Next == Set \/ Remove \/ Has

Spec == Init /\ [][Next]_vars

-----------------------------------------------------------------------------
(* Vocabulary of the properties.  These read the trees before and after a   *)
(* call without going through SetConfig or RemoveConfig.                    *)

NumChildren(t) ==
  IF t.kind \in {"map", "seq"} THEN Len(t.vals) ELSE IF t.kind = "mv" THEN 1 ELSE 0

\* The addresses of all nodes of the tree t.
RECURSIVE Addrs(_)
Addrs(t) ==
  {<<>>} \cup UNION {{<<i>> \o a : a \in Addrs(Child(t, i))} : i \in 1..NumChildren(t)}

\* A Mapping whose only entry is keyed "secure".
SecureShaped(v) == v.kind = "map" /\ Len(v.vals) = 1 /\ v.vals[1].key = "secure"

\* The node a secret Set writes: a MappingValueNode keyed "secure".
SecretValueNode(v) == v.kind = "mv" /\ v.key = "secure"

DistinctKeys(m) ==
  \A i, j \in 1..Len(m.vals) : m.vals[i].key = m.vals[j].key => i = j

\* The Mapping a call with this root key works on, Nil when there is none.
Container(f, rootKey) ==
  IF IsEmpty(f) \/ Body(f).kind # "map" THEN Nil
  ELSE IF rootKey = "" THEN Body(f)
  ELSE LET hits == {i \in 1..Len(Body(f).vals) :
                      Body(f).vals[i].key = rootKey /\ Body(f).vals[i].value.kind = "map"}
       IN IF hits = {} THEN Nil
          ELSE Body(f).vals[CHOOSE i \in hits : \A j \in hits : i <= j].value

\* The value the segments lead to by reading only, Nil when they lead nowhere.
RECURSIVE Lookup(_, _)
Lookup(t, segs) ==
  IF segs = <<>> THEN t
  ELSE LET k == Head(segs)
       IN IF t.kind = "map" /\ ~k.isInt /\ IndexOfKey(t.vals, k.s) # 0
            THEN Lookup(t.vals[IndexOfKey(t.vals, k.s)].value, Tail(segs))
          ELSE IF t.kind = "seq" /\ k.isInt /\ k.i >= 0 /\ k.i < Len(t.vals)
            THEN Lookup(t.vals[k.i + 1], Tail(segs))
          ELSE Nil

Prefix(segs, j) == SubSeq(segs, 1, j)

Segs == ParseKeyPath(call.key)

PrevContainer == Container(prev, call.rootKey)

NowContainer == Container(ast, call.rootKey)

PathSet == call.op = "Set" /\ call.path

\* v is the node for the value of the last Set: the scalar of the type
\* AdjustObjectValue gave it in path mode, a string of the raw value
\* otherwise, below a "secure" MappingValueNode when secrecy was requested.
HoldsValue(v) ==
  LET adjusted == AdjustObjectValue(call.raw, call.secure, call.path)
      scalar == IF call.secure THEN v.value ELSE v
      kind == IF adjusted.t = "bool" THEN "bool"
              ELSE IF adjusted.t = "int" THEN "integer"
              ELSE "string"
  IN /\ call.secure => SecretValueNode(v)
     /\ scalar.kind = kind
     /\ scalar.val = adjusted.s

\* node is the chain of one-entry Mappings segs[1] -> {segs[2] -> ... {segs[n]: value}}.
RECURSIVE Chain(_, _)
Chain(node, segs) ==
  /\ node.kind = "map"
  /\ Len(node.vals) = 1
  /\ node.vals[1].key = segs[1].s
  /\ IF Len(segs) = 1 THEN HoldsValue(node.vals[1].value)
     ELSE Chain(node.vals[1].value, Tail(segs))

-----------------------------------------------------------------------------
(* Properties *)

\* C1: after any sequence of Set and Remove calls, every Mapping of the tree
\* has pairwise distinct keys.
C1_DistinctKeys ==
  \A a \in Addrs(Body(ast)) :
    NodeAt(Body(ast), a).kind = "map" => DistinctKeys(NodeAt(Body(ast), a))

\* A non-path Set has just overwritten a key that was already there.
C1_Witness ==
  /\ call.op = "Set" /\ ~call.path /\ err = "ok" /\ n = MaxOps
  /\ PrevContainer.kind = "map"
  /\ IndexOfKey(PrevContainer.vals, call.key) # 0
  /\ Len(PrevContainer.vals) > 1

\* C2: a Set that did not request secrecy leaves no Mapping whose only entry
\* is keyed "secure" in the tree, other than those that were there before it.
C2_NoSecureMappingWithoutSecrecy ==
  (call.op = "Set" /\ ~call.secure /\ Body(ast).kind = "map") =>
    \A a \in Addrs(Body(ast)) :
      SecureShaped(NodeAt(Body(ast), a)) =>
        (a \in Addrs(Body(prev)) /\ SecureShaped(NodeAt(Body(prev), a)))

\* The case of C3: k is bound to the node of a secret, and the call is a
\* path-mode Set without secrecy of a two-segment path k.sub.
C3_Case ==
  /\ PathSet /\ ~call.secure
  /\ Len(Segs) = 2 /\ ~Segs[2].isInt
  /\ PrevContainer.kind = "map"
  /\ SecretValueNode(Lookup(PrevContainer, Prefix(Segs, 1)))

C4_Case ==
  /\ PathSet
  /\ Len(Segs) >= 2
  /\ \A i \in 1..Len(Segs) : ~Segs[i].isInt
  /\ Segs[Len(Segs)].s # "secure"
  /\ PrevContainer.kind = "map"
  /\ Len(PrevContainer.vals) = 0

\* C4: on an empty container the Set succeeds and the container then holds
\* exactly the chain k1 -> {k2 -> {... {kn: adjusted value}}}.
C4_NestedChain == C4_Case => (err = "ok" /\ Chain(NowContainer, Segs))

C4_Witness == C4_Case /\ Len(Segs) = 3 /\ call.raw = "7" /\ err = "ok"

\* The Sequence a path-mode Set with a final index addresses, before and after.
C5_Front == Prefix(Segs, Len(Segs) - 1)

C5_Index == Segs[Len(Segs)].i

C5_Before == Lookup(PrevContainer, C5_Front)

C5_After == Lookup(NowContainer, C5_Front)

C5_Case ==
  /\ PathSet
  /\ Len(Segs) >= 2
  /\ Segs[Len(Segs)].isInt
  /\ PrevContainer.kind = "map"

\* C5: on a Sequence of length n, index n appends, an index below n
\* overwrites that element only, an index above n fails with
\* IndexOutOfRange; on an absent key, index 0 makes the Sequence [x].
C5_SequenceIndex ==
  C5_Case =>
    LET len == Len(C5_Before.vals)
        i == C5_Index
    IN /\ (C5_Before.kind = "seq" /\ i = len) =>
            /\ err = "ok"
            /\ C5_After.kind = "seq"
            /\ Len(C5_After.vals) = len + 1
            /\ SubSeq(C5_After.vals, 1, len) = C5_Before.vals
            /\ HoldsValue(C5_After.vals[len + 1])
       /\ (C5_Before.kind = "seq" /\ i < len) =>
            /\ err = "ok"
            /\ C5_After.kind = "seq"
            /\ Len(C5_After.vals) = len
            /\ \A j \in 1..len : j # i + 1 => C5_After.vals[j] = C5_Before.vals[j]
            /\ HoldsValue(C5_After.vals[i + 1])
       /\ (C5_Before.kind = "seq" /\ i > len) => err = "IndexOutOfRange"
       /\ (Len(Segs) = 2 /\ C5_Before.kind = "nil" /\ i = 0) =>
            /\ err = "ok"
            /\ C5_After.kind = "seq"
            /\ Len(C5_After.vals) = 1
            /\ HoldsValue(C5_After.vals[1])

\* Set at [0] with v and then at [1] with true, from the document {}.
C5_Witness ==
  /\ n = MaxOps
  /\ call = [op |-> "Set", rootKey |-> "", key |-> "a[1]", raw |-> "true",
             secure |-> FALSE, path |-> TRUE]
  /\ Body(prev) = Mapping(1, TRUE, <<MV("a", 1, Sequence(1, <<Str("v", 1)>>))>>)
  /\ Body(ast) = Mapping(1, TRUE,
       <<MV("a", 1, Sequence(1, <<Str("v", 1), Scalar("bool", "true", 1, FALSE)>>))>>)

\* The case of C6 at the non-final segment j: the walk reaches, through
\* containers it keeps, an existing Mapping that is not secure-shaped while
\* the next segment is an index, or an existing Sequence while the next
\* segment is a string.
C6_At(j) ==
  LET v == Lookup(PrevContainer, Prefix(Segs, j))
  IN /\ \A i \in 1..(j - 1) : ~SecureShaped(Lookup(PrevContainer, Prefix(Segs, i)))
     /\ \/ v.kind = "map" /\ ~SecureShaped(v) /\ Segs[j + 1].isInt
        \/ v.kind = "seq" /\ ~Segs[j + 1].isInt

C6_Case ==
  /\ PathSet
  /\ PrevContainer.kind = "map"
  /\ \E j \in 1..(Len(Segs) - 1) : C6_At(j)

\* C6: such a Set fails with TypeMismatch and leaves the tree as it was.
C6_TypeMismatch == C6_Case => (err = "TypeMismatch" /\ ast = prev)

\* A string segment on an existing Sequence, below the first segment.
C6_Witness ==
  /\ C6_Case /\ err = "TypeMismatch"
  /\ Len(Segs) = 3 /\ C6_At(2) /\ Lookup(PrevContainer, Prefix(Segs, 2)).kind = "seq"

\* C7: on a non-empty Document, the same non-path Set made a second time
\* leaves the tree of the first.
C7_Idempotent ==
  (call.op = "Set" /\ ~call.path /\ ~IsEmpty(prev)) =>
    SetConfig(ast, call.rootKey, call.key, call.raw, call.secure, FALSE).f = ast

\* A secret non-path Set into an empty inline Mapping.
C7_Witness ==
  /\ call.op = "Set" /\ ~call.path /\ call.secure /\ err = "ok"
  /\ PrevContainer.kind = "map" /\ Len(PrevContainer.vals) = 0 /\ PrevContainer.flow
  /\ ast # prev

\* C8: a path-mode Remove whose path leads to no existing value returns
\* success and leaves the tree as it was.
C8_RemoveMissingNoChange ==
  (/\ call.op = "Remove" /\ call.path
   /\ PrevContainer.kind = "map"
   /\ Lookup(PrevContainer, Segs).kind = "nil") =>
    (err = "ok" /\ ast = prev)

\* The case of C9: the root key is not bound to a Mapping in the root Mapping.
C9_Case ==
  /\ call.op \in {"Set", "Remove"}
  /\ call.rootKey # ""
  /\ Body(prev).kind = "map"
  /\ \A i \in 1..Len(Body(prev).vals) :
       Body(prev).vals[i].key = call.rootKey => Body(prev).vals[i].value.kind # "map"

C10_EmptyDocument ==
  (call.op # "none" /\ (prev.isNil \/ Len(prev.Docs) = 0)) =>
    /\ ast = prev
    /\ ast.isNil \/ Len(ast.Docs) = 0
    /\ call.op = "Set" => err = "EmptyDocument"
    /\ call.op = "Remove" => err = "ok"
    /\ call.op = "HasKey" => (found = "false" /\ err = "ok")

\* A Set on a FileAST whose file holds no document.
C10_Witness ==
  /\ call.op = "Set" /\ err = "EmptyDocument"
  /\ ~prev.isNil /\ Len(prev.Docs) = 0 /\ n = MaxOps

\* C11: HasKey returns true exactly when the document root is a Mapping with
\* the name as a direct member, and false otherwise without failing; it is
\* true right after a successful non-path Set of the key with an empty root
\* key and false right after such a Remove.
C11_HasKey ==
  /\ call.op = "HasKey" =>
       /\ err = "ok"
       /\ found = IF /\ Body(prev).kind = "map"
                     /\ \E i \in 1..Len(Body(prev).vals) : Body(prev).vals[i].key = call.key
                  THEN "true" ELSE "false"
  /\ (call.op = "Set" /\ ~call.path /\ call.rootKey = "" /\ err = "ok") =>
       HasKey(ast, call.key) = "true"
  /\ (call.op = "Remove" /\ ~call.path /\ call.rootKey = "" /\ err = "ok") =>
       HasKey(ast, call.key) = "false"

\* The container the final write of a path-mode Set goes into, after the call.
FinalCursor == Lookup(NowContainer, Prefix(Segs, Len(Segs) - 1))

\* C12 as stated: a path-mode Set returns SecureKeyReserved only when the
\* final cursor is a Mapping whose only entry is keyed "secure" and the caller
\* did not request secrecy.
C12_OnlyWithoutSecrecy ==
  (PathSet /\ err = "SecureKeyReserved") => (SecureShaped(FinalCursor) /\ ~call.secure)

\* C12, amended: a path-mode Set returns SecureKeyReserved only when the final
\* cursor is a Mapping whose only entry is keyed "secure", whether or not the
\* caller requested secrecy.
C12_OnlySecureShaped ==
  (PathSet /\ err = "SecureKeyReserved") => (Len(Segs) >= 2 /\ SecureShaped(FinalCursor))

\* A Set that requested secrecy has failed with SecureKeyReserved.
C12_Witness ==
  PathSet /\ call.secure /\ err = "SecureKeyReserved" /\ SecureShaped(FinalCursor)

\* The container kind the walk needs at segment j: a Sequence when the next
\* segment is an index, a Mapping when it is a string.
Needed(j) == IF Segs[j + 1].isInt THEN "seq" ELSE "map"

\* The walk reaches segment j through existing containers it keeps.
Reached(j) ==
  /\ PathSet
  /\ PrevContainer.kind = "map"
  /\ j \in 1..(Len(Segs) - 1)
  /\ Lookup(PrevContainer, Prefix(Segs, j)).kind # "nil"
  /\ \A i \in 1..(j - 1) : ~SecureShaped(Lookup(PrevContainer, Prefix(Segs, i)))

\* After the call segment j leads to a container of the kind the walk needs.
Descended(j) == Lookup(NowContainer, Prefix(Segs, j)).kind = Needed(j)

\* C13: an existing bare scalar of any kind (string, integer, float or bool)
\* at a non-final segment is replaced by a new container and the walk goes on.
C13_ScalarReplaced ==
  PathSet =>
    \A j \in 1..(Len(Segs) - 1) :
      (/\ Reached(j)
       /\ Lookup(PrevContainer, Prefix(Segs, j)).kind \in {"string", "integer", "float", "bool"}) =>
        (err # "TypeMismatch" /\ Descended(j))

\* A wrapper at segment j: the Mapping {secure: v} of the parsed input or the
\* node a secret Set writes.
WrapperAt(j) ==
  LET v == Lookup(PrevContainer, Prefix(Segs, j))
  IN SecureShaped(v) \/ SecretValueNode(v)

\* C14: a path-mode Set that descends through a key bound to a SecureWrapper
\* replaces the wrapper by a new container and does not fail with
\* TypeMismatch, for a parsed wrapper and for one a secret Set wrote.
C14_WrapperReplaced ==
  PathSet =>
    \A j \in 1..(Len(Segs) - 1) :
      (Reached(j) /\ WrapperAt(j)) => (err # "TypeMismatch" /\ Descended(j))

\* Between old and new only the entry for k differs: replaced where it was,
\* or appended as the last entry when it was absent.
OnlyEntryChanged(old, new, k) ==
  LET i == IndexOfKey(old.vals, k)
      len == Len(old.vals)
  IN /\ new.kind = "map"
     /\ IF i # 0
        THEN /\ Len(new.vals) = len
             /\ new.vals[i].key = k
             /\ \A p \in 1..len : p # i => new.vals[p] = old.vals[p]
        ELSE /\ Len(new.vals) = len + 1
             /\ new.vals[len + 1].key = k
             /\ SubSeq(new.vals, 1, len) = old.vals

\* The single "secure" entry of old has become the single entry for k.
SecureEntryReplaced(old, new, k) ==
  /\ new.kind = "map"
  /\ Len(new.vals) = 1
  /\ new.vals[1].key = k
  /\ new.vals[1].col = old.vals[1].col

\* The Mappings a successful Set writes into: the container, and in path mode
\* every existing Mapping the walk keeps and goes through.  j is the number of
\* segments that lead to the Mapping, the key written is the next segment.
WrittenAt(j) ==
  /\ call.op = "Set" /\ err = "ok"
  /\ PrevContainer.kind = "map"
  /\ IF call.path
     THEN /\ j < Len(Segs)
          /\ ~Segs[j + 1].isInt
          /\ Lookup(PrevContainer, Prefix(Segs, j)).kind = "map"
          /\ \A i \in 1..j : ~SecureShaped(Lookup(PrevContainer, Prefix(Segs, i)))
     ELSE j = 0

WrittenKey(j) == IF call.path THEN Segs[j + 1].s ELSE call.key

WrittenBefore(j) == IF call.path THEN Lookup(PrevContainer, Prefix(Segs, j)) ELSE PrevContainer

WrittenAfter(j) == IF call.path THEN Lookup(NowContainer, Prefix(Segs, j)) ELSE NowContainer

\* C15 as stated: a successful write of k into any Mapping, one whose only
\* entry is keyed "secure" included, changes only the entry for k.
C15_OnlyEntryChanged ==
  \A j \in 0..2 :
    WrittenAt(j) => OnlyEntryChanged(WrittenBefore(j), WrittenAfter(j), WrittenKey(j))

\* C15, amended: a successful write of k changes only the entry for k in
\* every Mapping but one whose only entry is keyed "secure"; there the single
\* entry is replaced by the entry for k.
C15_EntryChangedOrSecureReplaced ==
  \A j \in 0..2 :
    WrittenAt(j) =>
      IF SecureShaped(WrittenBefore(j))
      THEN SecureEntryReplaced(WrittenBefore(j), WrittenAfter(j), WrittenKey(j))
      ELSE OnlyEntryChanged(WrittenBefore(j), WrittenAfter(j), WrittenKey(j))

\* A non-path Set of another key into a Mapping whose only entry was keyed "secure".
C15_Witness ==
  /\ WrittenAt(0) /\ ~call.path
  /\ SecureShaped(PrevContainer)
  /\ call.key # "secure"
  /\ NowContainer.vals[1].key = call.key

\* Address in the body of the Mapping a call with this root key works on.
ContainerAddr(f, rootKey) ==
  IF rootKey = "" THEN <<>>
  ELSE <<CHOOSE i \in 1..Len(Body(f).vals) :
           /\ Body(f).vals[i].key = rootKey /\ Body(f).vals[i].value.kind = "map"
           /\ \A j \in 1..(i - 1) :
                ~(Body(f).vals[j].key = rootKey /\ Body(f).vals[j].value.kind = "map")>>

\* Address below t of the value Lookup(t, segs) finds.
RECURSIVE PathAddr(_, _)
PathAddr(t, segs) ==
  IF segs = <<>> THEN <<>>
  ELSE LET k == Head(segs)
           i == IF t.kind = "map" THEN IndexOfKey(t.vals, k.s) ELSE k.i + 1
       IN <<i>> \o PathAddr(Child(t, i), Tail(segs))

C16_Front == Prefix(Segs, Len(Segs) - 1)

C16_Target == Lookup(PrevContainer, C16_Front)

\* Address in the body of the target of the Remove.
C16_Addr == ContainerAddr(prev, call.rootKey) \o PathAddr(PrevContainer, C16_Front)

\* The case of C16: a path-mode Remove of two or more segments takes the only
\* entry out of a Mapping whose parent is a Mapping.
C16_Case ==
  /\ call.op = "Remove" /\ call.path
  /\ Len(Segs) >= 2
  /\ PrevContainer.kind = "map"
  /\ Lookup(PrevContainer, Prefix(Segs, Len(Segs) - 2)).kind = "map"
  /\ C16_Target.kind = "map"
  /\ Len(C16_Target.vals) = 1
  /\ ~Segs[Len(Segs)].isInt
  /\ C16_Target.vals[1].key = Segs[Len(Segs)].s

\* C16: the entry that pointed at the target is then bound to a Mapping
\* without entries, and nothing else in the tree has changed.
C16_ParentEntryRebound ==
  C16_Case =>
    /\ err = "ok"
    /\ NodeAt(Body(ast), C16_Addr).kind = "map"
    /\ Len(NodeAt(Body(ast), C16_Addr).vals) = 0
    /\ ReplaceAt(Body(ast), C16_Addr, Nil) = ReplaceAt(Body(prev), C16_Addr, Nil)

\* A Remove of three segments that empties the target.
C16_Witness == C16_Case /\ Len(Segs) = 3 /\ err = "ok" /\ ast # prev

SetErrors ==
  {"EmptyDocument", "RootKeyNotFound", "TypeMismatch", "IndexOutOfRange",
   "SecureKeyReserved"}

\* C17: a Set that returns an error leaves the tree exactly as it was before
\* the call.
C17_ErrorLeavesTree == (call.op = "Set" /\ err \in SetErrors) => ast = prev

\* C18: a path-mode Set whose key is a single segment leaves the tree the
\* non-path Set of the head key with the same value leaves on the same
\* Document.
C18_SingleSegmentAsNoPath ==
  (PathSet /\ Len(Segs) = 1) =>
    ast = SetConfig(prev, call.rootKey, Segs[1].s, call.raw, call.secure, FALSE).f

\* The Set made the container segment j descends into: in the tree before,
\* some segment up to j led to nothing, to a value of another kind or to a
\* secure wrapper, and the tree after has a container of the needed kind there.
Created(j) ==
  /\ PathSet /\ PrevContainer.kind = "map"
  /\ j \in 1..(Len(Segs) - 1)
  /\ \E i \in 1..j :
       \/ Lookup(PrevContainer, Prefix(Segs, i)).kind # Needed(i)
       \/ SecureShaped(Lookup(PrevContainer, Prefix(Segs, i)))
  /\ Lookup(NowContainer, Prefix(Segs, j)).kind = Needed(j)

\* C19: a Mapping made for a string segment has the column of the container
\* it is spliced into plus 2, a Sequence made for an integer segment has the
\* column of that container.
C19_ColumnFromContainer ==
  PathSet =>
    \A j \in 1..(Len(Segs) - 1) :
      Created(j) =>
        Lookup(NowContainer, Prefix(Segs, j)).col =
          Lookup(NowContainer, Prefix(Segs, j - 1)).col
            + (IF Needed(j) = "map" THEN 2 ELSE 0)

\* A chain of two nested Mappings made by one Set.
C19_Witness ==
  /\ PathSet /\ err = "ok" /\ Len(Segs) = 3
  /\ Created(1) /\ Created(2)
  /\ Needed(1) = "map" /\ Needed(2) = "map"
  /\ Lookup(NowContainer, Prefix(Segs, 2)).col = NowContainer.col + 4

\* C20: a Set on a Document whose root is a Mapping never fails an assertion
\* of getConfigFromNode or setValue.
C20_NoAssertionFails ==
  (call.op = "Set" /\ ~IsEmpty(prev) /\ Body(prev).kind = "map") => err # "panic"

\* A path-mode Set that went through a Sequence and appended to a Sequence.
C20_Witness ==
  /\ PathSet /\ err = "ok"
  /\ Body(prev).kind = "map"
  /\ Len(Segs) >= 2
  /\ Segs[Len(Segs)].isInt
  /\ Lookup(PrevContainer, Prefix(Segs, Len(Segs) - 1)).kind = "seq"
  /\ Segs[Len(Segs)].i = Len(Lookup(PrevContainer, Prefix(Segs, Len(Segs) - 1)).vals)
  /\ Len(Lookup(NowContainer, Prefix(Segs, Len(Segs) - 1)).vals) = Segs[Len(Segs)].i + 1

====
